---- MODULE Spec2Model ----
(***************************************************************************)
(* A model of TuringBot's core: the config store (src/core/config.ts), the *)
(* module tree (src/core/modules.ts) and the note handlers                 *)
(* (src/src/modules/note.ts).                                              *)
(*                                                                         *)
(* A JSON value tree is a function from paths (sequences of keys) to       *)
(* strings: "{}" marks an object, any other string is a primitive          *)
(* ("true" and "false" are the booleans, "null" is null, "tok" a string).  *)
(* The domain of a tree is prefix closed and <<>> is its root.  The config *)
(* file is held as the tree its text parses to: comments and layout do not *)
(* survive a load, so they are not part of the state.                      *)
(***************************************************************************)
EXTENDS Integers, Sequences, FiniteSets, TLC

VARIABLES
    botConfig,      \* config.ts:18     the in-memory mirror of config.jsonc
    configFile,     \* config.ts:11     what ./config.jsonc parses to
    edits,          \* config.ts:64     the editConfigOption calls and where each stands
    eventLog,       \* logger           number of records logged, per category
    unhandled,      \* errors thrown inside a node:fs callback: no caller receives them
    modules,        \* modules.ts:8     the Module objects constructed so far
    lastDispatch,   \* the modules the last input named and the one it executed
    records,        \* note.ts:31      the documents of the notes collection, in order
    tasks,          \* note.ts:76      the note handler invocations and where each stands
    last,           \* the last add or clear, when it ran with no other handler
    invoked,        \* the number of handler calls so far
    added           \* per user, the notes added with success since the last clear

configVars == <<botConfig, configFile, edits, unhandled>>

moduleVars == <<modules, lastDispatch>>

noteVars == <<records, tasks, last, invoked, added>>

----------------------------------------------------------------------------
(* Bounds *)

MaxEdits == 2

MaxModules == 3

MaxTasks == 2

MaxCalls == 3

----------------------------------------------------------------------------
(* JSON trees *)

OBJ == "{}"

IsPrefix(p, q) == Len(p) <= Len(q) /\ SubSeq(q, 1, Len(p)) = p

IsStrictPrefix(p, q) == Len(p) < Len(q) /\ IsPrefix(p, q)

HasPath(tree, p) == p \in DOMAIN tree

\* tree with the value at p replaced by the primitive or empty object v
SetPath(tree, p, v) ==
    [q \in {r \in DOMAIN tree : ~IsStrictPrefix(p, r)} \cup {p} |->
        IF q = p THEN v ELSE tree[q]]

\* what `key in x` throws on: x is a string, a boolean, a number or null
IsPrimitive(tree, p) == tree[p] # OBJ

InitialConfig ==
    ( <<>> :> OBJ
   @@ <<"authToken">> :> "tok"
   @@ <<"modules">> :> OBJ
   @@ <<"modules", "note">> :> OBJ
   @@ <<"modules", "note", "enabled">> :> "true"
   @@ <<"modules", "whois">> :> OBJ
   @@ <<"modules", "whois", "enabled">> :> "false" )

----------------------------------------------------------------------------
(* src/core/config.ts *)

\* the walk of editConfigOption (lines 66-82) from segment i on:
\* "ok" when every segment is found, "missing" when one is not (the early
\* return), "TypeError" when `in` is applied to a primitive
RECURSIVE CheckLocation(_, _, _)
CheckLocation(tree, location, i) ==
    IF i > Len(location) THEN "ok"
    ELSE IF IsPrimitive(tree, SubSeq(location, 1, i - 1)) THEN "TypeError"
    ELSE IF HasPath(tree, SubSeq(location, 1, i))
         THEN CheckLocation(tree, location, i + 1)
         ELSE "missing"

\* _set (lines 34-41), called with every intermediate segment an object.
\* path[path.length - 1] of an empty path is undefined, which as a property
\* key is "undefined"
SetInMemory(tree, path, value) ==
    IF path = <<>> THEN SetPath(tree, <<"undefined">>, value)
    ELSE SetPath(tree, path, value)

\* the longest proper prefix of path that the tree holds (the root at least)
DeepestParent(tree, path) ==
    LET ks == {k \in 0..(Len(path) - 1) : HasPath(tree, SubSeq(path, 1, k))}
        k == CHOOSE k \in ks : \A j \in ks : j <= k
    IN SubSeq(path, 1, k)

\* modify(file, location, newValue) (line 93) throws when the deepest parent
\* the document holds is no object
ModifyThrows(tree, path) ==
    path # <<>> /\ IsPrimitive(tree, DeepestParent(tree, path))

\* applyEdits(file, modify(file, location, newValue)) (lines 91-94) on the
\* parsed document: an empty path replaces the document; otherwise the value
\* is set under the deepest parent the document holds, wrapped in the objects
\* that are missing
Modify(tree, path, value) ==
    IF path = <<>> THEN (<<>> :> value)
    ELSE LET parent == DeepestParent(tree, path)
             top == SubSeq(path, 1, Len(parent) + 1)
             kept == {r \in DOMAIN tree : ~IsPrefix(top, r)}
             made == {SubSeq(path, 1, k) : k \in (Len(parent) + 1)..Len(path)}
         IN [q \in kept \cup made |->
                IF q = path THEN value
                ELSE IF q \in made THEN OBJ
                ELSE tree[q]]

\* Object.assign(botConfig, parsed) (line 26): every top-level key of the
\* parsed document replaces the same key of the target, the other keys stay;
\* a boolean or null source has no keys
ObjectAssign(target, source) ==
    IF IsPrimitive(source, <<>>) THEN target
    ELSE LET keys == {q[1] : q \in {r \in DOMAIN source : Len(r) >= 1}}
             kept == {q \in DOMAIN target : Len(q) = 0 \/ q[1] \notin keys}
             copied == {q \in DOMAIN source : Len(q) >= 1}
         IN [q \in kept \cup copied |->
                IF q \in copied THEN source[q] ELSE target[q]]

Edits == 1..MaxEdits

Locations ==
    { <<>>,
      <<"authToken">>,
      <<"authToken", "x">>,
      <<"modules", "note", "enabled">>,
      <<"modules", "warn", "enabled">>,
      <<"x">> }

Values == {"true", "false"}

NoEdit ==
    [pc |-> "idle", location |-> <<>>, newValue |-> "null", check |-> "none",
     outcome |-> "none", newConfig |-> (<<>> :> OBJ), io |-> "none"]

LogEvent(category) == eventLog' = [eventLog EXCEPT ![category] = @ + 1]

\* editConfigOption up to its return (lines 64-87 and 107): `await readFile(..)`
\* awaits undefined, because the callback form of readFile returns nothing,
\* so the call returns without waiting for the file
EditConfigOption(e, location, newValue) ==
    /\ edits[e].pc = "idle"
    /\ \A d \in Edits : d < e => edits[d].pc # "idle"
    /\ LET check == CheckLocation(botConfig, location, 1)
           call == [NoEdit EXCEPT !.location = location, !.newValue = newValue,
                                  !.check = check]
       IN CASE check = "missing" ->
                 /\ LogEvent("Error")
                 /\ edits' = [edits EXCEPT ![e] =
                        [call EXCEPT !.pc = "done", !.outcome = "returned"]]
                 /\ UNCHANGED botConfig
            [] check = "TypeError" ->
                 /\ edits' = [edits EXCEPT ![e] =
                        [call EXCEPT !.pc = "done", !.outcome = "rejected"]]
                 /\ UNCHANGED <<botConfig, eventLog>>
            [] check = "ok" ->
                 /\ botConfig' = SetInMemory(botConfig, location, newValue)
                 /\ edits' = [edits EXCEPT ![e] =
                        [call EXCEPT !.pc = "reading", !.outcome = "returned"]]
                 /\ UNCHANGED eventLog
    /\ UNCHANGED <<configFile, unhandled, moduleVars, noteVars>>

\* the readFile callback (lines 87-96): err is thrown inside the callback,
\* as is what modify throws; otherwise the patched text goes to writeFile
ReadFileCallback(e, err) ==
    /\ edits[e].pc = "reading"
    /\ LET newConfig == Modify(configFile, edits[e].location, edits[e].newValue)
           throws == ModifyThrows(configFile, edits[e].location)
       IN IF err
          THEN /\ edits' = [edits EXCEPT ![e].pc = "done", ![e].io = "readFailed"]
               /\ unhandled' = unhandled + 1
          ELSE IF throws
          THEN /\ edits' = [edits EXCEPT ![e].pc = "done", ![e].io = "modifyFailed"]
               /\ unhandled' = unhandled + 1
          ELSE /\ edits' = [edits EXCEPT ![e].pc = "writing",
                                         ![e].newConfig = newConfig]
               /\ UNCHANGED unhandled
    /\ UNCHANGED <<botConfig, configFile, eventLog, moduleVars, noteVars>>

\* the writeFile callback (lines 96-105): it takes no err parameter and logs
\* the change whether or not the file was written
WriteFileCallback(e, err) ==
    /\ edits[e].pc = "writing"
    /\ configFile' = IF err THEN configFile ELSE edits[e].newConfig
    /\ edits' = [edits EXCEPT ![e].pc = "done",
                              ![e].io = IF err THEN "writeFailed" ELSE "written"]
    /\ LogEvent("Info")
    /\ UNCHANGED <<botConfig, unhandled, moduleVars, noteVars>>

\* readConfigFromFileSystem (lines 22-30) with the file in place
ReadConfigFromFileSystem ==
    /\ botConfig # ObjectAssign(botConfig, configFile)
    /\ botConfig' = ObjectAssign(botConfig, configFile)
    /\ UNCHANGED <<configFile, edits, eventLog, unhandled, moduleVars, noteVars>>

----------------------------------------------------------------------------
(* src/core/modules.ts *)

ModuleIds == 1..MaxModules

\* new Module(command, helpMessage, onCommandExecute, rootModuleName) as the
\* feature modules call it: "" stands for an omitted rootModuleName
Constructions ==
    { <<"note", "">>, <<"whois", "">>, <<"warn", "">>,
      <<"add", "note">>, <<"add", "whois">> }

\* built is "no" before the constructor ran, "yes" once it returned and
\* "threw" when it raised an exception
NoModule ==
    [built |-> "no", command |-> "", aliases |-> {}, rootModuleName |-> "",
     enabled |-> "false", submodules |-> <<>>, parent |-> 0]

\* what JavaScript takes for true in a condition
Truthy(v) == v \notin {"false", "undefined", "null"}

\* lines 92-97: a falsy rootModuleName means a root module is being created
RootModuleNameOf(command, rootModuleName) ==
    IF rootModuleName # "" THEN rootModuleName ELSE command

\* a constructor that gives up on a module without a config entry
ConstructorThrowsFailFast(config, root) ==
    ~HasPath(config, <<"modules", root>>)

\* the constructor throws a TypeError at line 100 when the config holds no
\* modules object (`in` applied to undefined or a primitive) and at line 102
\* when the module's entry is null
ConstructorThrows(config, root) ==
    \/ ~HasPath(config, <<"modules">>)
    \/ IsPrimitive(config, <<"modules">>)
    \/ HasPath(config, <<"modules", root>>) /\ config[<<"modules", root>>] = "null"

\* lines 100-115: this.enabled after construction; a config entry without an
\* enabled key leaves it undefined (reading .enabled of a null entry throws)
EnabledOf(config, root) ==
    IF HasPath(config, <<"modules", root>>)
    THEN IF HasPath(config, <<"modules", root, "enabled">>)
         THEN config[<<"modules", root, "enabled">>]
         ELSE "undefined"
    ELSE "false"

\* lines 103-114: the warning of a module whose config is not found
WarningsOf(config, root) ==
    IF HasPath(config, <<"modules", root>>) THEN 0 ELSE 1

\* the constructor (lines 84-118)
NewModule(m, command, rootModuleName) ==
    /\ modules[m].built = "no"
    /\ \A k \in ModuleIds : k < m => modules[k].built # "no"
    /\ LET root == RootModuleNameOf(command, rootModuleName)
       IN IF ConstructorThrows(botConfig, root)
          THEN /\ modules' = [modules EXCEPT ![m] =
                      [NoModule EXCEPT !.built = "threw", !.command = command,
                                       !.rootModuleName = root]]
               /\ UNCHANGED eventLog
          ELSE /\ modules' = [modules EXCEPT ![m] =
                      [NoModule EXCEPT !.built = "yes", !.command = command,
                                       !.rootModuleName = root,
                                       !.enabled = EnabledOf(botConfig, root)]]
               /\ eventLog' = [eventLog EXCEPT
                      !.Warning = @ + WarningsOf(botConfig, root),
                      !.Info = @ + 1]
    /\ UNCHANGED <<configVars, lastDispatch, noteVars>>

RECURSIVE Ancestors(_, _)
Ancestors(mods, m) ==
    IF mods[m].parent = 0 THEN {}
    ELSE {mods[m].parent} \cup Ancestors(mods, mods[m].parent)

\* registerSubmodule (lines 124-126).  Each module is owned by one parent and
\* the modules form a tree, as the feature modules build them.  Identifiers
\* follow construction order and a parent is constructed before its children,
\* which reaches every labelled tree once instead of once per ordering
RegisterSubmodule(m, submoduleToRegister) ==
    /\ modules[m].built = "yes" /\ modules[submoduleToRegister].built = "yes"
    /\ modules[submoduleToRegister].parent = 0
    /\ m < submoduleToRegister
    /\ modules' = [modules EXCEPT
          ![m].submodules = Append(@, submoduleToRegister),
          ![submoduleToRegister].parent = m]
    /\ UNCHANGED <<configVars, eventLog, lastDispatch, noteVars>>

----------------------------------------------------------------------------
(* Command dispatch, as section 4.1 of the specification gives it: the      *)
(* dispatcher itself is not part of src/.                                   *)

Tokens == {"NOTE", "whois", "add"}

\* the inputs of one, two and three tokens
Inputs ==
    {<<a>> : a \in Tokens} \cup {<<a, b>> : a, b \in Tokens}
        \cup {<<a, b, c>> : a, b, c \in Tokens}

\* the trigger is case insensitive
Lower(token) == IF token = "NOTE" THEN "note" ELSE token

Matches(module, token) ==
    \/ Lower(token) = Lower(module.command)
    \/ \E alias \in module.aliases : Lower(token) = Lower(alias)

Range(seq) == {seq[i] : i \in DOMAIN seq}

\* a dispatcher that does not look at the enable flag
ReachableAlways(module) == TRUE

\* a module is reachable from its parent only when it is enabled
Reachable(module) == Truthy(module.enabled)

\* the modules executeCommand may be invoked on for the tokens, 0 when the
\* answer is a help response or nothing: the first token is matched among the
\* candidates; a match with submodules consumes the next token among its
\* children, a match without submodules is executed
RECURSIVE Resolve(_, _, _)
Resolve(mods, candidates, tokens) ==
    IF tokens = <<>> THEN {0}
    ELSE LET matched == {c \in candidates :
                            Reachable(mods[c]) /\ Matches(mods[c], Head(tokens))}
         IN IF matched = {} THEN {0}
            ELSE UNION { IF mods[c].submodules = <<>> THEN {c}
                         ELSE Resolve(mods, Range(mods[c].submodules), Tail(tokens))
                         : c \in matched }

\* the modules the dispatcher holds at the top level
Roots(mods) == {m \in ModuleIds : mods[m].built = "yes" /\ mods[m].parent = 0
                                  /\ mods[m].rootModuleName = mods[m].command}

\* the modules the tokens name exactly, one token per level from a root,
\* whether or not they are enabled
RECURSIVE Named(_, _, _)
Named(mods, candidates, tokens) ==
    LET matched == {c \in candidates : Matches(mods[c], Head(tokens))}
    IN IF Len(tokens) = 1 THEN matched
       ELSE UNION { Named(mods, Range(mods[c].submodules), Tail(tokens))
                    : c \in matched }

Dispatch(input) ==
    /\ \E executed \in Resolve(modules, Roots(modules), input) :
          lastDispatch' = [named |-> Named(modules, Roots(modules), input),
                           executed |-> executed]
    /\ UNCHANGED <<configVars, eventLog, modules, noteVars>>

----------------------------------------------------------------------------
(* src/src/modules/note.ts *)

TaskIds == 1..MaxTasks

Users == {"u1", "u2"}

Contents == {"test", "n2"}

\* what util.formatDate(new Date()) gives while the handlers run
Now == "d1"

NoRecord == [found |-> FALSE, notes |-> <<>>]

\* an invocation that has returned, as the invocations after it see it:
\* fresh tells whether the collection held no document of the user when the
\* handler was called
NoCall ==
    [kind |-> "none", caller |-> "", user |-> "", contents |-> "",
     failed |-> FALSE, fresh |-> TRUE]

NoTask ==
    [pc |-> "idle", kind |-> "none", caller |-> "", user |-> "", contents |-> "",
     date |-> "", record |-> NoRecord, reply |-> "none", threw |-> FALSE,
     failed |-> "none", calls |-> {}, attachment |-> <<>>, fresh |-> TRUE,
     seen |-> NoCall]

\* a note signed with the id of the user it is about
AddedByTarget(caller, user) == user

\* addedBy: interaction.user.id (line 92)
AddedBy(caller, user) == caller

\* the Note of lines 90-94
Note(contents, addedBy, date) ==
    [contents |-> contents, addedBy |-> addedBy, date |-> date]

\* the indexes of the documents of a user
Matching(recs, user) == {i \in DOMAIN recs : recs[i].user = user}

First(indexes) == CHOOSE i \in indexes : \A j \in indexes : i <= j

\* records.findOne({user: user.id}) (line 40): the first document that matches
FindOne(recs, user) ==
    IF Matching(recs, user) = {} THEN NoRecord
    ELSE [found |-> TRUE, notes |-> recs[First(Matching(recs, user))].notes]

\* records.insertOne(structuredRecord) (line 127)
InsertOne(recs, user, notes) == Append(recs, [user |-> user, notes |-> notes])

\* records.updateOne({user}, {$set: {notes}}, {upsert: true}) (lines 107-112):
\* the first document that matches gets the notes; without a match the upsert
\* inserts a document
UpdateOne(recs, user, notes) ==
    IF Matching(recs, user) = {} THEN InsertOne(recs, user, notes)
    ELSE [recs EXCEPT ![First(Matching(recs, user))].notes = notes]

Remove(seq, i) == SubSeq(seq, 1, i - 1) \o SubSeq(seq, i + 1, Len(seq))

\* a deleteOne that removes nothing
DeleteNone(recs, user) == recs

\* records.deleteOne({user: user.id}) (line 50): the first document that matches
DeleteOne(recs, user) ==
    IF Matching(recs, user) = {} THEN recs
    ELSE Remove(recs, First(Matching(recs, user)))

\* the new note put before the notes the record holds
PushNoteFirst(notes, note) == <<note>> \o notes

\* record.notes.push(note) (line 104)
PushNote(notes, note) == Append(notes, note)

\* JSON.stringify({notes: record.notes}, null, 2) (line 202) as the sequence
\* of the text's tokens
RECURSIVE StringifyNotes(_)
StringifyNotes(notes) ==
    IF notes = <<>> THEN <<>>
    ELSE << "{", "contents", Head(notes).contents,
                 "addedBy", Head(notes).addedBy,
                 "date", Head(notes).date, "}" >> \o StringifyNotes(Tail(notes))

Stringify(notes) == <<"{", "notes", "[">> \o StringifyNotes(notes) \o <<"]", "}">>

\* what JSON.parse gives for the text of an attachment
ParseAttachment(text) ==
    [notes |-> [i \in 1..((Len(text) - 5) \div 8) |->
                  [contents |-> text[3 + 8 * (i - 1) + 3],
                   addedBy  |-> text[3 + 8 * (i - 1) + 5],
                   date     |-> text[3 + 8 * (i - 1) + 7]]]]

\* no handler other than t is between its call and its return
Alone(t) == \A k \in TaskIds \ {t} : tasks[k].pc \in {"idle", "done"}

\* a handler returns; an add or a clear becomes the last call, which is not
\* known once handlers have overlapped
Finish(t, task) ==
    /\ tasks' = [tasks EXCEPT ![t] = [task EXCEPT !.pc = "done"]]
    /\ last' =
          IF ~Alone(t) THEN NoCall
          ELSE IF task.kind \in {"add", "clear"}
          THEN [kind |-> task.kind, caller |-> task.caller, user |-> task.user,
                contents |-> task.contents, failed |-> (task.failed # "none"),
                fresh |-> task.fresh]
          ELSE last

\* a rejection that nothing catches leaves the handler
Throw(t, call) ==
    Finish(t, [tasks[t] EXCEPT !.threw = TRUE, !.failed = call])

\* the dispatcher calls the handler of add (line 76), clear (line 150) or get
\* (line 188), which runs through the user fetch (lines 80, 154, 192), an
\* await that touches no state of the bot, to its first call of the store
\* (lines 82-100).  The model stops after MaxCalls calls
Invoke(t, kind, caller, user, contents, fetched) ==
    /\ tasks[t].pc \in {"idle", "done"}
    /\ \A k \in TaskIds : k < t => tasks[k].pc \notin {"idle", "done"}
    /\ invoked < MaxCalls
    /\ invoked' = invoked + 1
    /\ LET task == [NoTask EXCEPT !.kind = kind, !.caller = caller,
                        !.user = user, !.contents = contents,
                        !.fresh = (Matching(records, user) = {}),
                        !.seen = IF Alone(t) THEN last ELSE NoCall]
       IN IF ~fetched
          THEN Finish(t, [task EXCEPT !.threw = TRUE, !.failed = "fetch"])
          ELSE IF kind = "add" /\ caller = user
          THEN Finish(t, [task EXCEPT !.reply = "error: self"])
          ELSE /\ tasks' = [tasks EXCEPT ![t] =
                      [task EXCEPT !.pc = "find",
                                   !.date = IF kind = "add" THEN Now ELSE "",
                                   !.calls = {"findOne"}]]
               /\ last' = IF Alone(t) THEN last ELSE NoCall
    /\ UNCHANGED <<records, added>>
    /\ UNCHANGED <<configVars, eventLog, moduleVars>>

\* await getRecord(user) resumes (lines 100-104, 156-161, 194-203)
GetRecord(t, ok) ==
    /\ tasks[t].pc = "find"
    /\ LET record == FindOne(records, tasks[t].user)
           task == [tasks[t] EXCEPT !.record = record]
           note == Note(task.contents, AddedBy(task.caller, task.user), task.date)
       IN IF ~ok THEN Throw(t, "findOne")
          ELSE CASE task.kind = "add" /\ record.found ->
                      /\ tasks' = [tasks EXCEPT ![t] =
                            [task EXCEPT !.pc = "update",
                                         !.record.notes = PushNote(@, note),
                                         !.calls = @ \cup {"updateOne"}]]
                      /\ UNCHANGED last
                 [] task.kind = "add" /\ ~record.found ->
                      /\ tasks' = [tasks EXCEPT ![t] =
                            [task EXCEPT !.pc = "insert",
                                         !.calls = @ \cup {"insertOne"}]]
                      /\ UNCHANGED last
                 [] task.kind = "clear" /\ record.found ->
                      /\ tasks' = [tasks EXCEPT ![t] =
                            [task EXCEPT !.pc = "delete",
                                         !.calls = @ \cup {"deleteOne"}]]
                      /\ UNCHANGED last
                 [] task.kind = "get" /\ record.found ->
                      /\ tasks' = [tasks EXCEPT ![t] =
                            [task EXCEPT !.pc = "reply",
                                         !.attachment = Stringify(record.notes)]]
                      /\ UNCHANGED last
                 [] OTHER ->
                      Finish(t, [task EXCEPT !.reply = "error: no notes"])
    /\ UNCHANGED <<records, invoked, added>>
    /\ UNCHANGED <<configVars, eventLog, moduleVars>>

\* the reply after a store write (lines 113-118, 127-133, 163-171): the
\* errorEmbed is the value of the .catch callback, which nothing reads; the
\* handler goes on to return the successEmbed
ReplyAfterWrite(ok) == "success"

\* await records.updateOne(..).catch(..) resumes (lines 107-118)
AddUpdate(t, ok) ==
    /\ tasks[t].pc = "update"
    /\ records' = IF ok THEN UpdateOne(records, tasks[t].user, tasks[t].record.notes)
                  ELSE records
    /\ added' = IF ok THEN [added EXCEPT ![tasks[t].user] = Append(@,
                                Note(tasks[t].contents, AddedBy(tasks[t].caller, tasks[t].user), tasks[t].date))]
                ELSE added
    /\ Finish(t, [tasks[t] EXCEPT !.reply = ReplyAfterWrite(ok),
                     !.failed = IF ok THEN "none" ELSE "updateOne"])
    /\ UNCHANGED <<invoked, configVars, eventLog, moduleVars>>

\* await records.insertOne(structuredRecord).catch(..) resumes (lines 122-133)
AddInsert(t, ok) ==
    /\ tasks[t].pc = "insert"
    /\ LET note == Note(tasks[t].contents, AddedBy(tasks[t].caller, tasks[t].user), tasks[t].date)
       IN /\ records' = IF ok THEN InsertOne(records, tasks[t].user, <<note>>)
                        ELSE records
          /\ added' = IF ok THEN [added EXCEPT ![tasks[t].user] = Append(@, note)]
                      ELSE added
    /\ Finish(t, [tasks[t] EXCEPT !.reply = ReplyAfterWrite(ok),
                     !.failed = IF ok THEN "none" ELSE "insertOne"])
    /\ UNCHANGED <<invoked, configVars, eventLog, moduleVars>>

\* await deleteRecord(user).catch(..) resumes (lines 163-171)
ClearDelete(t, ok) ==
    /\ tasks[t].pc = "delete"
    /\ records' = IF ok THEN DeleteOne(records, tasks[t].user) ELSE records
    /\ added' = IF ok THEN [added EXCEPT ![tasks[t].user] = <<>>] ELSE added
    /\ Finish(t, [tasks[t] EXCEPT !.reply = ReplyAfterWrite(ok),
                     !.failed = IF ok THEN "none" ELSE "deleteOne"])
    /\ UNCHANGED <<invoked, configVars, eventLog, moduleVars>>

\* await util.replyToInteraction(interaction, {files}) resumes (lines 205-213):
\* the attachment is delivered and the handler returns nothing
GetReply(t, ok) ==
    /\ tasks[t].pc = "reply"
    /\ IF ok THEN Finish(t, [tasks[t] EXCEPT !.reply = "attachment"])
       ELSE Throw(t, "reply")
    /\ UNCHANGED <<records, invoked, added>>
    /\ UNCHANGED <<configVars, eventLog, moduleVars>>

\* no handler is between its call and its return
Quiet == \A t \in TaskIds : tasks[t].pc \in {"idle", "done"}

InitConfig ==
    /\ botConfig = InitialConfig
    /\ configFile = InitialConfig
    /\ edits = [e \in Edits |-> NoEdit]
    /\ eventLog = [Error |-> 0, Warning |-> 0, Info |-> 0]
    /\ unhandled = 0

InitModules ==
    /\ modules = [m \in ModuleIds |-> NoModule]
    /\ lastDispatch = [named |-> {}, executed |-> 0]

InitNotes ==
    /\ records = <<>>
    /\ tasks = [t \in TaskIds |-> NoTask]
    /\ last = NoCall
    /\ invoked = 0
    /\ added = [u \in Users |-> <<>>]

vars == <<botConfig, configFile, edits, eventLog, unhandled, modules, lastDispatch,
          records, tasks, last, invoked, added>>

Init == InitConfig /\ InitModules /\ InitNotes

NextConfig ==
    \/ \E e \in Edits, location \in Locations, newValue \in Values :
          EditConfigOption(e, location, newValue)
    \/ \E e \in Edits, err \in BOOLEAN : ReadFileCallback(e, err)
    \/ \E e \in Edits, err \in BOOLEAN : WriteFileCallback(e, err)
    \/ ReadConfigFromFileSystem

SpecConfig == Init /\ [][NextConfig]_vars

NextModules ==
    \/ \E m \in ModuleIds, c \in Constructions : NewModule(m, c[1], c[2])
    \/ \E m \in ModuleIds, child \in ModuleIds : RegisterSubmodule(m, child)
    \/ \E input \in Inputs : Dispatch(input)

SpecModules == Init /\ [][NextModules]_vars

Invocations ==
    {<<"add", c, u, n>> : c \in Users, u \in Users, n \in Contents}
        \cup {<<k, "", u, "">> : k \in {"clear", "get"}, u \in Users}

Resume ==
    \/ \E t \in TaskIds, ok \in BOOLEAN : GetRecord(t, ok)
    \/ \E t \in TaskIds, ok \in BOOLEAN : AddUpdate(t, ok)
    \/ \E t \in TaskIds, ok \in BOOLEAN : AddInsert(t, ok)
    \/ \E t \in TaskIds, ok \in BOOLEAN : ClearDelete(t, ok)
    \/ \E t \in TaskIds, ok \in BOOLEAN : GetReply(t, ok)

\* the handlers of independent commands interleave at their awaits
NextNotes ==
    \/ \E t \in TaskIds, i \in Invocations, fetched \in BOOLEAN :
          Invoke(t, i[1], i[2], i[3], i[4], fetched)
    \/ Resume

SpecNotes == Init /\ [][NextNotes]_vars

\* one command at a time: a handler is called when the one before has returned
NextNotesSeq ==
    \/ \E t \in TaskIds, i \in Invocations, fetched \in BOOLEAN :
          Quiet /\ Invoke(t, i[1], i[2], i[3], i[4], fetched)
    \/ Resume

SpecNotesSeq == Init /\ [][NextNotesSeq]_vars

----------------------------------------------------------------------------
(* Properties *)

\* C1: for every module tree and every input, dispatch invokes
\* executeCommand only on a module that is enabled and whose ancestors are
\* all enabled; a disabled module and its descendants are never executed,
\* whatever the input
C1_DisabledSubtreeNeverExecuted ==
    \A input \in Inputs :
        \A x \in Resolve(modules, Roots(modules), input) :
            x # 0 => \A a \in {x} \cup Ancestors(modules, x) :
                        Truthy(modules[a].enabled)

\* an input named exactly an enabled module without submodules, two levels
\* below an enabled root and directly below a disabled module, and nothing
\* was executed
C1_Witness ==
    /\ lastDispatch.executed = 0
    /\ \E m \in lastDispatch.named :
          /\ Truthy(modules[m].enabled)
          /\ modules[m].submodules = <<>>
          /\ modules[m].parent # 0
          /\ ~Truthy(modules[modules[m].parent].enabled)
          /\ modules[modules[m].parent].parent \in Roots(modules)
          /\ Truthy(modules[modules[modules[m].parent].parent].enabled)

\* C2: editConfigOption called with a location that the in-memory config does
\* not hold leaves the in-memory config unchanged, starts no file read, logs
\* one error record and returns normally
C2_AbsentPathIsSilentNoOp ==
    [][\A e \in Edits :
          (edits[e].pc = "idle" /\ edits'[e].pc # "idle"
              /\ ~HasPath(botConfig, edits'[e].location))
          => /\ botConfig' = botConfig
             /\ edits'[e].pc = "done"
             /\ eventLog'.Error = eventLog.Error + 1
             /\ edits'[e].outcome = "returned"]_vars

\* C3: when editConfigOption, called with a location the in-memory config
\* holds, has returned, the in-memory config holds the new value at the
\* location and so does the config file
C3_ReturnedEditIsInMemoryAndOnDisk ==
    [][\A e \in Edits :
          (edits[e].pc = "idle" /\ edits'[e].outcome = "returned"
              /\ edits'[e].location # <<>>
              /\ HasPath(botConfig, edits'[e].location))
          => /\ HasPath(botConfig', edits'[e].location)
             /\ botConfig'[edits'[e].location] = edits'[e].newValue
             /\ HasPath(configFile', edits'[e].location)
             /\ configFile'[edits'[e].location] = edits'[e].newValue]_vars

\* C4: a note handler in which a store call or the user fetch was rejected
\* returns an error reply and lets no rejection out; in particular it does not
\* reply with success when its write failed
C4_RejectionBecomesErrorReply ==
    \A t \in TaskIds :
        (tasks[t].pc = "done" /\ tasks[t].failed # "none")
            => /\ ~tasks[t].threw
               /\ tasks[t].reply \notin {"success", "attachment", "none"}

\* the notes of the one document of a user, none without a document
NotesOf(recs, user) == FindOne(recs, user).notes

\* C5: handlers running one after the other, the notes added with success to
\* a user since the last clear are held by exactly one document, in the order
\* they were added, the oldest first; a user nothing was added to has none
C5_NotesAreTheAddedNotesInOrder ==
    \A u \in Users :
        /\ Cardinality(Matching(records, u)) = (IF added[u] = <<>> THEN 0 ELSE 1)
        /\ NotesOf(records, u) = added[u]

\* two different notes were added to a user, one after the other
C5_Witness ==
    \E u \in Users :
        /\ Len(added[u]) = 2
        /\ added[u][1].contents # added[u][2].contents
        /\ NotesOf(records, u) = added[u]

\* C6: handlers running one after the other, a clear for a user without a
\* document replies with an error and calls no deleteOne; a clear for a user
\* with a document leaves the user without one, and the get that follows it
\* replies that the user doesn't have any notes
C6_ClearRemovesTheRecord ==
    \A t \in TaskIds :
        /\ (tasks[t].kind = "clear" /\ tasks[t].pc = "done"
                /\ tasks[t].failed = "none" /\ ~tasks[t].record.found)
              => /\ tasks[t].reply = "error: no notes"
                 /\ "deleteOne" \notin tasks[t].calls
        /\ (tasks[t].kind = "clear" /\ tasks[t].pc = "done"
                /\ tasks[t].failed = "none" /\ tasks[t].record.found)
              => /\ tasks[t].reply = "success"
                 /\ Matching(records, tasks[t].user) = {}
        /\ (tasks[t].kind = "get" /\ tasks[t].pc = "done"
                /\ tasks[t].failed = "none"
                /\ tasks[t].seen.kind = "clear" /\ ~tasks[t].seen.failed
                /\ tasks[t].seen.user = tasks[t].user)
              => /\ tasks[t].reply = "error: no notes"
                 /\ tasks[t].attachment = <<>>

\* a get followed the clear of a user that had a document
C6_Witness ==
    \E t \in TaskIds :
        /\ tasks[t].kind = "get" /\ tasks[t].pc = "done"
        /\ tasks[t].failed = "none"
        /\ tasks[t].seen.kind = "clear" /\ ~tasks[t].seen.failed
        /\ ~tasks[t].seen.fresh
        /\ tasks[t].seen.user = tasks[t].user
        /\ tasks[t].reply = "error: no notes"

\* a get that followed, with no call rejected, the add of "test" to its user,
\* who had no document before the add
GetAfterAdd(t) ==
    /\ tasks[t].kind = "get" /\ tasks[t].pc = "done"
    /\ tasks[t].failed = "none"
    /\ tasks[t].seen.kind = "add" /\ ~tasks[t].seen.failed
    /\ tasks[t].seen.fresh
    /\ tasks[t].seen.user = tasks[t].user
    /\ tasks[t].seen.contents = "test"

EmitsTheNote(t) ==
    /\ tasks[t].reply = "attachment"
    /\ ParseAttachment(tasks[t].attachment) =
          [notes |-> <<Note("test", tasks[t].seen.caller, Now)>>]

\* C7 as stated: for any caller and any user without a document, add of
\* "test" followed by get emits an attachment that parses to the one note,
\* signed by the caller
C7_AddThenGetAnyCaller ==
    \A t \in TaskIds : GetAfterAdd(t) => EmitsTheNote(t)

\* C7 as amended: the same for any caller other than the user; when the
\* caller is the user, the add stores nothing and the get replies that the
\* user doesn't have any notes
C7_AddThenGetOtherCaller ==
    \A t \in TaskIds :
        GetAfterAdd(t) =>
            IF tasks[t].seen.caller # tasks[t].user
            THEN EmitsTheNote(t)
            ELSE tasks[t].reply = "error: no notes" /\ tasks[t].attachment = <<>>

\* a get followed the add of "test" by another user and emitted an attachment
C7_Witness ==
    \E t \in TaskIds :
        /\ GetAfterAdd(t)
        /\ tasks[t].seen.caller # tasks[t].user
        /\ tasks[t].reply = "attachment"

C9_FileFailureIsThrown ==
    \A e \in Edits :
        (edits[e].location # <<>> /\ edits[e].io \in {"readFailed", "writeFailed"})
            => edits[e].outcome = "rejected"

\* C10: the notes collection holds at most one document per user
C10_OneRecordPerUser ==
    \A u \in Users : Cardinality(Matching(records, u)) <= 1

\* two locations overlap when one is a prefix of the other
Overlapping(p, q) == IsPrefix(p, q) \/ IsPrefix(q, p)

Holds(tree, e) ==
    HasPath(tree, edits[e].location) /\ tree[edits[e].location] = edits[e].newValue

BothWritten(d, e) ==
    /\ d # e
    /\ edits[d].check = "ok" /\ edits[e].check = "ok"
    /\ ~Overlapping(edits[d].location, edits[e].location)
    /\ edits[d].io = "written" /\ edits[e].io = "written"

\* C11: once the file writes of two editConfigOption calls with valid
\* locations that do not overlap have both completed, botConfig holds both
\* new values and the config file holds both new values
C11_NonOverlappingEditsBothLand ==
    \A d \in Edits : \A e \in Edits :
        BothWritten(d, e) =>
            /\ Holds(botConfig, d) /\ Holds(botConfig, e)
            /\ Holds(configFile, d) /\ Holds(configFile, e)

====
